---- MODULE Spec2Model ----
(***************************************************************************)
(* Worker pool of @esportsplus/workers: the pool scheduler (Pool), the      *)
(* task handle (TaskPromise) and the worker-side dispatcher (onmessage),    *)
(* connected by one FIFO message channel per worker and direction.          *)
(***************************************************************************)
EXTENDS Integers, Sequences, FiniteSets, TLC

(* ------------------------------ bounds --------------------------------- *)

\* schedule() calls made by the caller
MaxTasks == 3
\* workers ever constructed (createWorker calls)
MaxWorkers == 4
\* what a run may use beyond calls of the action "add" that return 5: each
\* task with a signal, with a timeout or with another path, each action that
\* throws or returns another value, each context.retain, context.dispatch and
\* context.release call of an action, each dispatch('release') call of the
\* caller, each transport error, each shutdown() call and an idle timeout
\* count one
MaxExtras == 2
MaxRetainExtras == 3
\* property reads on an accessor between two invocations
MaxAccess == 2
\* nodes of a value graph, and elements or keys of one node
MaxNodes == 3
MaxKids == 2

(* --------------------------- program inputs ---------------------------- *)

\* navigator.hardwareConcurrency / os.cpus().length
HardwareConcurrency == {1, 2, 3}
\* options.limit; 0 stands for an absent limit (both are falsy)
OptLimits == {-1, 0, 1, 2, 3}
\* options.idleTimeout; 0 stands for absent
IdleTimeouts == {0, 30}
\* ScheduleOptions.timeout; 0 stands for absent
Timeouts == {-5, 0, 20}
\* ScheduleOptions.signal: absent, not yet aborted, already aborted
Signals == {"none", "live", "aborted"}
\* paths the facade submits ("" when the accessor is invoked directly); only
\* "add" names an action of the worker
Paths == {"add", "nope", ""}
ActionMap == {"add"}
\* ScheduleOptions the caller passes when it asks for an accessor
AccessorOptions == {[signal |-> "none", timeout |-> 0], [signal |-> "aborted", timeout |-> 0]}
\* property names the caller reads on an accessor
PropertyKeys == {"add", "path", "options"}

(* ----------------------------- JS values ------------------------------- *)

Undefined == [ty |-> "undefined", v |-> ""]
Str(x) == [ty |-> "string", v |-> x]
Num(x) == [ty |-> "number", v |-> x]
\* an Error instance with the given message
Err(m) == [ty |-> "Error", v |-> m]
\* a plain object {message, stack} as it arrives in an error frame
ErrObj(m) == [ty |-> "object", v |-> m]

\* JavaScript truthiness, as used by `if (data.error)`
Truthy(x) ==
    CASE x.ty = "undefined" -> FALSE
      [] x.ty = "string" -> x.v # ""
      [] x.ty = "number" -> x.v \notin {"0", "NaN"}
      [] OTHER -> TRUE

\* String(x)
JSString(x) ==
    CASE x.ty = "undefined" -> "undefined"
      [] x.ty = "Error" -> "Error: " \o x.v
      [] x.ty = "object" -> "[object Object]"
      [] OTHER -> x.v

\* values an action may return or pass to context.release
Results == {Num("5"), Undefined}
\* values an action or a cleanup may throw
Thrown == {Err("boom"), Str("oops"), Str("")}
\* event names an action may pass to context.dispatch
EventNames == {"progress", "release", ""}
\* messages of the transport's error event; "" stands for an absent message
TransportMessages == {"crashed", ""}

MsgAborted == "@esportsplus/workers: task aborted"
MsgShuttingDown == "@esportsplus/workers: pool is shutting down"
MsgClosing == "@esportsplus/workers: pool closing"
MsgWorkerError == "@esportsplus/workers: worker error"
MsgTimedOut(ms) == "@esportsplus/workers: task timed out after " \o ToString(ms) \o "ms"
MsgNoPath(p) == "@esportsplus/workers: path does not exist '" \o p \o "'"

(* ------------------------------- state --------------------------------- *)

VARIABLES
    \* Pool fields
    available, cleanup, completed, idleTimeout, idleTimers, limit, pending,
    queue, tasks, workers,
    \* Task records by uuid, and the TaskPromise of each
    task, handle,
    \* identity counters: uuid() and the Worker objects constructed
    nextTask, nextWorker,
    \* transport: terminated workers, frames pool -> worker and worker -> pool
    terminated, inbox, outbox,
    \* worker side: the invocation of each request, the cleanups table
    inv, cleanups,
    \* promises returned by shutdown()
    shutdowns,
    \* what is left of MaxExtras
    extras,
    \* the accessor the caller holds: the fields path and options of the proxy
    \* target, and (history) the property names read since it was created or
    \* last invoked
    proxy,
    \* one call of collectTransferables: the value graph given, the array
    \* returned, and whether the call was made
    scan,
    \* history: the uuids of the request frames in the order sent, the uuids
    \* added to the queue in the order added, and what must never happen
    sent, enqueued, faults

vars == <<available, cleanup, completed, idleTimeout, idleTimers, limit, pending,
          queue, tasks, workers, task, handle, nextTask, nextWorker, terminated,
          inbox, outbox, inv, cleanups, shutdowns, extras, proxy, scan, sent,
          enqueued, faults>>

\* the whole state as one record, so that handlers compose like the methods do
St == [available |-> available, cleanup |-> cleanup, completed |-> completed,
       idleTimeout |-> idleTimeout, idleTimers |-> idleTimers, limit |-> limit,
       pending |-> pending, queue |-> queue, tasks |-> tasks, workers |-> workers,
       task |-> task, handle |-> handle, nextTask |-> nextTask,
       nextWorker |-> nextWorker, terminated |-> terminated, inbox |-> inbox,
       outbox |-> outbox, inv |-> inv, cleanups |-> cleanups,
       shutdowns |-> shutdowns, extras |-> extras, proxy |-> proxy, scan |-> scan,
       sent |-> sent,
       enqueued |-> enqueued, faults |-> faults]

Commit(s) ==
    /\ available' = s.available
    /\ cleanup' = s.cleanup
    /\ completed' = s.completed
    /\ idleTimeout' = s.idleTimeout
    /\ idleTimers' = s.idleTimers
    /\ limit' = s.limit
    /\ pending' = s.pending
    /\ queue' = s.queue
    /\ tasks' = s.tasks
    /\ workers' = s.workers
    /\ task' = s.task
    /\ handle' = s.handle
    /\ nextTask' = s.nextTask
    /\ nextWorker' = s.nextWorker
    /\ terminated' = s.terminated
    /\ inbox' = s.inbox
    /\ outbox' = s.outbox
    /\ inv' = s.inv
    /\ cleanups' = s.cleanups
    /\ shutdowns' = s.shutdowns
    /\ extras' = s.extras
    /\ proxy' = s.proxy
    /\ scan' = s.scan
    /\ sent' = s.sent
    /\ enqueued' = s.enqueued
    /\ faults' = s.faults

(* ------------------------------ helpers -------------------------------- *)

\* Array.prototype.indexOf / splice(index, 1): the sequence without w
Without(seq, w) == SelectSeq(seq, LAMBDA x : x # w)
\* Array.prototype.pop
Last(seq) == seq[Len(seq)]
Front(seq) == SubSeq(seq, 1, Len(seq) - 1)
Range(seq) == {seq[i] : i \in 1..Len(seq)}
\* Map.prototype.set / delete
MapSet(m, k, x) == [y \in DOMAIN m \cup {k} |-> IF y = k THEN x ELSE m[y]]
MapDelete(m, k) == [y \in DOMAIN m \ {k} |-> m[y]]

(* ----------------------- TaskPromise and transport --------------------- *)

\* release: the listeners the pool registered under 'release'. History, set
\* when the promise settles: `by`, the handler that settled it, and `live`,
\* whether the worker the task was sent to was still running at that moment
NewHandle == [st |-> "pending", val |-> Undefined, release |-> 0, by |-> "",
              live |-> FALSE]

\* the resolve / reject functions of the promise executor: the first call settles
WorkerLive(s, t) == s.task[t].sentTo \in DOMAIN s.inbox

resolve(s, t, x, by) ==
    IF s.handle[t].st = "pending"
    THEN [s EXCEPT !.handle[t].st = "resolved", !.handle[t].val = x,
                   !.handle[t].by = by, !.handle[t].live = WorkerLive(s, t)]
    ELSE s

reject(s, t, m, by) ==
    IF s.handle[t].st = "pending"
    THEN [s EXCEPT !.handle[t].st = "rejected", !.handle[t].val = Err(m),
                   !.handle[t].by = by, !.handle[t].live = WorkerLive(s, t)]
    ELSE s

\* one call of an action: where it stands, the closure variables retained,
\* released and cleanup (whether retain was given one), whether it called
\* context.dispatch, how it ended, and (history) how often the cleanup it
\* registered was invoked
NoOutcome == [kind |-> "none", val |-> Undefined]
NoInvocation == [st |-> "none", worker |-> 0, retained |-> FALSE, released |-> FALSE,
                 cleanup |-> FALSE, dispatched |-> FALSE, out |-> NoOutcome,
                 cleaned |-> 0]

\* worker.terminate(): the worker's context is destroyed, with the frames still
\* in flight from and to it and every invocation running in it
terminate(s, w) ==
    IF w \in s.terminated THEN s
    ELSE [s EXCEPT
            !.terminated = @ \cup {w},
            !.inbox = MapDelete(@, w),
            !.outbox = MapDelete(@, w),
            !.cleanups = MapDelete(@, w),
            !.inv = [t \in DOMAIN @ |->
                        IF @[t].worker = w /\ @[t].st # "none"
                        THEN [@[t] EXCEPT !.st = "done"] ELSE @[t]]]

RequestFrame(t, path) == [uuid |-> t, path |-> path, release |-> FALSE]
ReleaseFrame(t) == [uuid |-> t, path |-> "", release |-> TRUE]

\* worker.postMessage(frame) on the pool side
postMessage(s, w, frame) ==
    LET s1 == IF frame.release THEN s
              ELSE [s EXCEPT !.sent = Append(@, frame.uuid),
                             !.task[frame.uuid].sentTo = w]
    IN  IF w \in s.terminated THEN s1
        ELSE [s1 EXCEPT !.inbox[w] = Append(@, frame)]

(* -------------------------------- Pool --------------------------------- *)

NoCleanup == [kind |-> "null", promise |-> 0]

clearIdleTimer(s, worker) == [s EXCEPT !.idleTimers = @ \ {worker}]

clearTaskTimeout(s, t) == [s EXCEPT !.task[t].timerWorker = 0]

\* the new worker is s.nextWorker
createWorker(s) ==
    LET worker == s.nextWorker
    IN  [s EXCEPT !.nextWorker = worker + 1,
                  !.workers = Append(@, worker),
                  !.inbox = MapSet(@, worker, <<>>),
                  !.outbox = MapSet(@, worker, <<>>),
                  !.cleanups = MapSet(@, worker, {})]

\* markAvailable without this.available.push(worker)
markAvailable_OnlyTimer(s, worker) ==
    IF s.idleTimeout = 0 THEN s
    ELSE [s EXCEPT !.idleTimers = @ \cup {worker}]

markAvailable(s, worker) ==
    LET s1 == [s EXCEPT !.available = Append(@, worker)]
    IN  IF s.idleTimeout = 0 THEN s1
        ELSE [s1 EXCEPT !.idleTimers = @ \cup {worker}]

\* replaceWorker without its second splice: the worker stays in available
replaceWorker_KeepsAvailable(s, worker) ==
    LET s1 == clearIdleTimer(s, worker)
    IN  terminate([s1 EXCEPT !.workers = Without(@, worker)], worker)

replaceWorker(s, worker) ==
    LET s1 == clearIdleTimer(s, worker)
        s2 == [s1 EXCEPT !.workers = Without(@, worker),
                         !.available = Without(@, worker)]
    IN  terminate(s2, worker)

\* queue.next() repeated while the task taken is aborted: what is left of the
\* queue from the first task that is not aborted
RECURSIVE SkipAborted(_, _)
SkipAborted(q, tk) ==
    IF q = <<>> THEN q
    ELSE IF tk[Head(q)].aborted THEN SkipAborted(Tail(q), tk)
    ELSE q

RECURSIVE processQueue(_)
RECURSIVE dispatch(_, _, _)

dispatch(s, worker, t) ==
    IF s.task[t].aborted
    THEN processQueue(markAvailable(s, worker))
    ELSE LET s1 == clearIdleTimer(s, worker)
             s2 == [s1 EXCEPT !.pending = MapSet(@, worker, t),
                              !.tasks = @ \cup {t},
                              !.faults = IF worker \in DOMAIN s.pending
                                         THEN @ \cup {"dispatch to a bound worker"}
                                         ELSE @]
             s3 == IF s2.task[t].timeout > 0
                   THEN [s2 EXCEPT !.task[t].timerWorker = worker]
                   ELSE s2
         IN  postMessage(s3, worker, RequestFrame(t, s3.task[t].path))

\* processQueue() without available.pop()
processQueue_KeepsWorker(s) ==
    IF s.cleanup.kind # "null" \/ Len(s.available) = 0 \/ Len(s.queue) = 0
    THEN s
    ELSE LET rest == SkipAborted(s.queue, s.task)
         IN  IF rest = <<>>
             THEN [s EXCEPT !.queue = <<>>]
             ELSE dispatch([s EXCEPT !.queue = Tail(rest)], Last(s.available),
                           Head(rest))

\* processQueue() taking the newest task of the queue
processQueue_TakesNewest(s) ==
    IF s.cleanup.kind # "null" \/ Len(s.available) = 0 \/ Len(s.queue) = 0
    THEN s
    ELSE dispatch([s EXCEPT !.available = Front(@), !.queue = Front(@)],
                  Last(s.available), Last(s.queue))

\* Pool.processQueue()
processQueue(s) ==
    IF s.cleanup.kind # "null" \/ Len(s.available) = 0 \/ Len(s.queue) = 0
    THEN s
    ELSE LET worker == Last(s.available)
             rest == SkipAborted(s.queue, s.task)
         IN  IF rest = <<>>
             THEN [s EXCEPT !.queue = <<>>]
             ELSE dispatch([s EXCEPT !.available = Front(@), !.queue = Tail(rest)],
                           worker, Head(rest))

RECURSIVE TerminateEach(_, _)
TerminateEach(s, ws) ==
    IF ws = <<>> THEN s ELSE TerminateEach(terminate(s, Head(ws)), Tail(ws))

\* the drain function without `this.available.length = 0`
runCleanup_KeepsAvailable(s) ==
    IF s.cleanup.kind = "drain"
    THEN [TerminateEach(s, s.workers) EXCEPT
            !.workers = <<>>, !.tasks = {},
            !.shutdowns[s.cleanup.promise] = "resolved"]
    ELSE s

\* the function shutdown() stores in this.cleanup when pending is not empty
\* (the one it stores when pending is empty does nothing)
runCleanup(s) ==
    IF s.cleanup.kind = "drain"
    THEN [TerminateEach(s, s.workers) EXCEPT
            !.available = <<>>, !.workers = <<>>, !.tasks = {},
            !.shutdowns[s.cleanup.promise] = "resolved"]
    ELSE s

\* TaskPromise.dispatch(event): the listeners the pool registered under
\* 'release' (one per retained ack) each post a release frame to the worker
\* that sent the ack
RECURSIVE PostReleases(_, _, _)
PostReleases(s, t, n) ==
    IF n = 0 THEN s
    ELSE PostReleases(postMessage(s, s.task[t].worker, ReleaseFrame(t)), t, n - 1)

promiseDispatch(s, t, event) ==
    IF event = "release" THEN PostReleases(s, t, s.handle[t].release) ELSE s

\* MAX_CONCURRENCY = (hardwareConcurrency - 1) || 1
MAX_CONCURRENCY(hw) == IF hw - 1 # 0 THEN hw - 1 ELSE 1

\* options?.limit && options.limit < MAX_CONCURRENCY ? options.limit : MAX_CONCURRENCY
EffectiveLimit(optLimit, max) ==
    IF optLimit # 0 /\ optLimit < max THEN optLimit ELSE max

RECURSIVE Prewarm(_)
Prewarm(s) ==
    IF Len(s.workers) < s.limit
    THEN Prewarm([createWorker(s) EXCEPT !.available = Append(@, s.nextWorker)])
    ELSE s

\* new Pool(url, options)
constructor(hw, optLimit, optIdle) ==
    LET s == [available |-> <<>>, cleanup |-> NoCleanup, completed |-> 0,
              idleTimeout |-> optIdle, idleTimers |-> {},
              limit |-> EffectiveLimit(optLimit, MAX_CONCURRENCY(hw)),
              pending |-> <<>>, queue |-> <<>>, tasks |-> {}, workers |-> <<>>,
              task |-> <<>>, handle |-> <<>>, nextTask |-> 1, nextWorker |-> 1,
              terminated |-> {}, inbox |-> <<>>, outbox |-> <<>>, inv |-> <<>>,
              cleanups |-> <<>>, shutdowns |-> <<>>, extras |-> 0,
              sent |-> <<>>, enqueued |-> <<>>, faults |-> {}]
    IN  IF s.idleTimeout = 0 THEN Prewarm(s) ELSE s

\* worker.onerror adding a new worker to available as the timeout callback does
onerror_Replaces(s, worker, message) ==
    LET s1 == IF worker \in DOMAIN s.pending
              THEN LET t == s.pending[worker]
                       a == clearTaskTimeout(s, t)
                       b == [a EXCEPT !.pending = MapDelete(@, worker),
                                      !.tasks = @ \ {t}]
                   IN  reject(b, t, IF message # "" THEN message ELSE MsgWorkerError,
                              "error")
              ELSE s
        c == replaceWorker(s1, worker)
    IN  processQueue([createWorker(c) EXCEPT !.available = Append(@, c.nextWorker)])

\* worker.onerror without clearTaskTimeout
onerror_KeepsTimer(s, worker, message) ==
    LET s1 == IF worker \in DOMAIN s.pending
              THEN LET t == s.pending[worker]
                       b == [s EXCEPT !.pending = MapDelete(@, worker),
                                      !.tasks = @ \ {t}]
                   IN  reject(b, t, IF message # "" THEN message ELSE MsgWorkerError,
                              "error")
              ELSE s
    IN  processQueue(replaceWorker(s1, worker))

\* worker.onerror
onerror(s, worker, message) ==
    LET s1 == IF worker \in DOMAIN s.pending
              THEN LET t == s.pending[worker]
                       a == clearTaskTimeout(s, t)
                       b == [a EXCEPT !.pending = MapDelete(@, worker),
                                      !.tasks = @ \ {t}]
                   IN  reject(b, t, IF message # "" THEN message ELSE MsgWorkerError,
                              "error")
              ELSE s
    IN  processQueue(replaceWorker(s1, worker))

\* the retained branch of worker.onmessage without clearTaskTimeout
onRetained_KeepsTimer(s, worker, t) ==
    [s EXCEPT !.task[t].retained = TRUE,
              !.task[t].worker = worker,
              !.handle[t].release = @ + 1]

\* worker.onmessage, `if (data.retained)`: the task stays bound and the pool
\* registers a 'release' listener on its promise
onRetained(s, worker, t) ==
    LET a == clearTaskTimeout(s, t)
    IN  [a EXCEPT !.task[t].retained = TRUE,
                  !.task[t].worker = worker,
                  !.handle[t].release = @ + 1]

\* worker.onmessage, task completion
onCompletion(s, worker, t, data) ==
    LET a == clearTaskTimeout(s, t)
        b == [a EXCEPT !.pending = MapDelete(@, worker),
                       !.tasks = @ \ {t},
                       !.completed = @ + 1]
        c == IF Truthy(data.error)
             THEN reject(b, t, IF data.error.ty = "object"
                               THEN data.error.v
                               ELSE JSString(data.error), "reply")
             ELSE resolve(b, t, data.result, "reply")
        d == markAvailable(c, worker)
        e == IF d.cleanup.kind # "null" /\ DOMAIN d.pending = {}
             THEN runCleanup(d) ELSE d
    IN  processQueue(e)

\* worker.onmessage without the lookup in this.tasks
onmessage_NoLookup(s, worker, data) ==
    IF Truthy(data.event) THEN promiseDispatch(s, data.uuid, data.event.v)
    ELSE IF data.retained THEN onRetained(s, worker, data.uuid)
    ELSE onCompletion(s, worker, data.uuid, data)

\* worker.onmessage
onmessage(s, worker, data) ==
    IF data.uuid \notin s.tasks THEN s
    ELSE IF Truthy(data.event) THEN promiseDispatch(s, data.uuid, data.event.v)
    ELSE IF data.retained THEN onRetained(s, worker, data.uuid)
    ELSE onCompletion(s, worker, data.uuid, data)

\* the timeout callback calling processQueue before it adds the replacement
timeoutCallback_QueueFirst(s, t) ==
    LET worker == s.task[t].timerWorker
        s0 == [s EXCEPT !.task[t].timerWorker = 0]
    IN  IF worker \notin DOMAIN s.pending THEN s0
        ELSE LET a == [s0 EXCEPT !.pending = MapDelete(@, worker),
                                 !.tasks = @ \ {t}]
                 b == reject(a, t, MsgTimedOut(a.task[t].timeout), "timeout")
                 c == processQueue(replaceWorker(b, worker))
             IN  [createWorker(c) EXCEPT !.available = Append(@, c.nextWorker)]

\* the timeout callback counting the task it rejects as completed
timeoutCallback_Counts(s, t) ==
    LET worker == s.task[t].timerWorker
        s0 == [s EXCEPT !.task[t].timerWorker = 0]
    IN  IF worker \notin DOMAIN s.pending THEN s0
        ELSE LET a == [s0 EXCEPT !.pending = MapDelete(@, worker),
                                 !.tasks = @ \ {t},
                                 !.completed = @ + 1]
                 b == reject(a, t, MsgTimedOut(a.task[t].timeout), "timeout")
                 c == replaceWorker(b, worker)
                 d == [createWorker(c) EXCEPT !.available = Append(@, c.nextWorker)]
             IN  processQueue(d)

\* the callback of the timer armed by dispatch, with the worker it captured
timeoutCallback(s, t) ==
    LET worker == s.task[t].timerWorker
        s0 == [s EXCEPT !.task[t].timerWorker = 0]
    IN  IF worker \notin DOMAIN s.pending THEN s0
        ELSE LET a == [s0 EXCEPT !.pending = MapDelete(@, worker),
                                 !.tasks = @ \ {t}]
                 b == reject(a, t, MsgTimedOut(a.task[t].timeout), "timeout")
                 c == replaceWorker(b, worker)
                 d == [createWorker(c) EXCEPT !.available = Append(@, c.nextWorker)]
             IN  processQueue(d)

\* the loop of the 'abort' listener without this.tasks.delete(task.uuid)
abortPending_KeepsTasks(s, t) ==
    LET bound == {w \in DOMAIN s.pending : s.pending[w] = t}
    IN  IF bound = {} THEN s
        ELSE LET worker == CHOOSE w \in bound : TRUE
                 a == clearTaskTimeout(s, t)
                 b == [a EXCEPT !.pending = MapDelete(@, worker)]
                 c == replaceWorker(b, worker)
                 d == [createWorker(c) EXCEPT
                          !.available = Append(@, c.nextWorker)]
             IN  processQueue(d)

\* the loop of the 'abort' listener looking for the worker the task was sent
\* to instead of the entry of this.pending that holds the task
abortPending_FormerWorker(s, t) ==
    LET bound == {w \in DOMAIN s.pending : w = s.task[t].sentTo}
    IN  IF bound = {} THEN s
        ELSE LET worker == CHOOSE w \in bound : TRUE
                 a == clearTaskTimeout(s, t)
                 b == [a EXCEPT !.pending = MapDelete(@, worker),
                                !.tasks = @ \ {t}]
                 c == replaceWorker(b, worker)
                 d == [createWorker(c) EXCEPT
                          !.available = Append(@, c.nextWorker)]
             IN  processQueue(d)

\* the loop of the 'abort' listener over this.pending: the worker bound to
\* the task, if any, is replaced
abortPending(s, t) ==
    LET bound == {w \in DOMAIN s.pending : s.pending[w] = t}
    IN  IF bound = {} THEN s
        ELSE LET worker == CHOOSE w \in bound : TRUE
                 a == clearTaskTimeout(s, t)
                 b == [a EXCEPT !.pending = MapDelete(@, worker),
                                !.tasks = @ \ {t}]
                 c == replaceWorker(b, worker)
                 d == [createWorker(c) EXCEPT
                          !.available = Append(@, c.nextWorker)]
             IN  processQueue(d)

\* the listener rejecting before it looks at this.pending
abortListener_RejectsFirst(s, t) ==
    abortPending(reject([s EXCEPT !.task[t].aborted = TRUE], t, MsgAborted,
                        "abort"), t)

\* the listener without its task.reject
abortListener_NeverRejects(s, t) ==
    abortPending([s EXCEPT !.task[t].aborted = TRUE], t)

\* the listener without task.aborted = true
abortListener_ForgetsFlag(s, t) ==
    reject(abortPending(s, t), t, MsgAborted, "abort")

\* the 'abort' listener schedule() registers on task.signal
abortListener(s, t) ==
    reject(abortPending([s EXCEPT !.task[t].aborted = TRUE], t), t, MsgAborted,
           "abort")

\* the callback of the idle timer armed by markAvailable
idleCallback(s, worker) ==
    replaceWorker([s EXCEPT !.idleTimers = @ \ {worker}], worker)

NewTask(path, signal, timeout) ==
    [aborted |-> FALSE, path |-> path, retained |-> FALSE, signal |-> signal,
     listener |-> FALSE, timeout |-> timeout, timerWorker |-> 0, worker |-> 0,
     sentTo |-> 0]

\* the task object and the TaskPromise schedule() builds first
scheduleTask(s, path, signal, timeout) ==
    [s EXCEPT !.nextTask = @ + 1,
              !.task = MapSet(@, s.nextTask, NewTask(path, signal, timeout)),
              !.handle = MapSet(@, s.nextTask, NewHandle),
              !.inv = MapSet(@, s.nextTask, NoInvocation)]

\* the end of schedule(): an idle worker, else a new one below the limit,
\* else the queue
scheduleSelect(s, t) ==
    IF Len(s.available) > 0
    THEN LET worker == Last(s.available)
             a == [s EXCEPT !.available = Front(@)]
         IN  dispatch(clearIdleTimer(a, worker), worker, t)
    ELSE IF Len(s.workers) < s.limit
    THEN LET worker == s.nextWorker
         IN  dispatch(clearIdleTimer(createWorker(s), worker), worker, t)
    ELSE [s EXCEPT !.queue = Append(@, t), !.enqueued = Append(@, t)]

\* task.signal.addEventListener('abort', ..., { once: true })
addAbortListener(s, t) ==
    IF s.task[t].signal = "none" THEN s ELSE [s EXCEPT !.task[t].listener = TRUE]

\* schedule() without its test of this.cleanup
schedule_IgnoresCleanup(s, path, signal, timeout) ==
    LET t == s.nextTask
        s0 == scheduleTask(s, path, signal, timeout)
    IN  IF signal = "aborted" THEN reject(s0, t, MsgAborted, "schedule")
        ELSE scheduleSelect(addAbortListener(s0, t), t)

\* schedule() without its test of task.signal.aborted
schedule_IgnoresAbortedSignal(s, path, signal, timeout) ==
    LET t == s.nextTask
        s0 == scheduleTask(s, path, signal, timeout)
    IN  IF s0.cleanup.kind # "null" THEN reject(s0, t, MsgShuttingDown, "schedule")
        ELSE scheduleSelect(addAbortListener(s0, t), t)

\* Pool.schedule(path, values, options)
schedule(s, path, signal, timeout) ==
    LET t == s.nextTask
        s0 == scheduleTask(s, path, signal, timeout)
    IN  IF s0.cleanup.kind # "null" THEN reject(s0, t, MsgShuttingDown, "schedule")
        ELSE IF signal = "aborted" THEN reject(s0, t, MsgAborted, "schedule")
        ELSE scheduleSelect(addAbortListener(s0, t), t)

\* the loop of shutdown() over the queue without its task.reject
RejectAll_OnlyDrains(s, q) == s

RECURSIVE RejectAll(_, _)
RejectAll(s, q) ==
    IF q = <<>> THEN s
    ELSE RejectAll(reject(s, Head(q), MsgClosing, "shutdown"), Tail(q))

\* the release frames of shutdown(), to the workers of pending in the order
\* given (the frames go to different workers, so the order is not observable)
RECURSIVE ReleaseRetained(_, _)
ReleaseRetained(s, ws) ==
    IF ws = {} THEN s
    ELSE LET worker == CHOOSE w \in ws : \A x \in ws : w <= x
             t == s.pending[worker]
             s1 == IF s.task[t].retained
                   THEN postMessage(s, worker, ReleaseFrame(t)) ELSE s
         IN  ReleaseRetained(s1, ws \ {worker})

\* Pool.shutdown()
shutdown(s) ==
    LET s1 == [s EXCEPT !.idleTimers = {}]
        s2 == [RejectAll(s1, s1.queue) EXCEPT !.queue = <<>>]
        s3 == ReleaseRetained(s2, DOMAIN s2.pending)
    IN  IF DOMAIN s3.pending = {}
        THEN [TerminateEach(s3, s3.workers) EXCEPT
                !.cleanup = [kind |-> "noop", promise |-> 0],
                !.available = <<>>, !.workers = <<>>, !.tasks = {},
                !.shutdowns = Append(@, "resolved")]
        ELSE [s3 EXCEPT !.shutdowns = Append(@, "pending"),
                        !.cleanup = [kind |-> "drain",
                                     promise |-> Len(s3.shutdowns) + 1]]

(* ------------------------ worker-side dispatcher ----------------------- *)

WFrame(t, event, retained, error, result) ==
    [uuid |-> t, event |-> event, retained |-> retained, error |-> error,
     result |-> result]
EventFrame(t, event) == WFrame(t, Str(event), FALSE, Undefined, Undefined)
RetainedFrame(t) == WFrame(t, Undefined, TRUE, Undefined, Undefined)
ResultFrame(t, x) == WFrame(t, Undefined, FALSE, Undefined, x)
ErrorFrame(t, e) == WFrame(t, Undefined, FALSE, e, Undefined)

\* err instanceof Error ? { message, stack } : String(err)
EncodeError(err) == IF err.ty = "Error" THEN ErrObj(err.v) ELSE Str(JSString(err))

\* worker.postMessage(frame) on the worker side
workerPost(s, w, frame) == [s EXCEPT !.outbox[w] = Append(@, frame)]

\* the release request without cleanups.delete(data.uuid)
onRelease_KeepsCleanup(s, w, t, outcome) ==
    IF t \in s.cleanups[w]
    THEN LET s2 == [s EXCEPT !.inv[t].cleaned = @ + 1]
         IN  IF outcome.kind = "return"
             THEN workerPost(s2, w, ResultFrame(t, outcome.val))
             ELSE workerPost(s2, w, ErrorFrame(t, EncodeError(outcome.val)))
    ELSE workerPost(s, w, ResultFrame(t, Undefined))

\* the release request: the handler registered under the uuid, if any, is
\* invoked; `outcome` is what it does
onRelease(s, w, t, outcome) ==
    LET has == t \in s.cleanups[w]
        s1 == [s EXCEPT !.cleanups[w] = @ \ {t}]
    IN  IF has
        THEN LET s2 == [s1 EXCEPT !.inv[t].cleaned = @ + 1]
             IN  IF outcome.kind = "return"
                 THEN workerPost(s2, w, ResultFrame(t, outcome.val))
                 ELSE workerPost(s2, w, ErrorFrame(t, EncodeError(outcome.val)))
        ELSE workerPost(s1, w, ResultFrame(t, Undefined))

\* the worker's onmessage handler up to the call of the action; `outcome` is
\* what the registered cleanup does when a release frame invokes it
workerOnmessage(s, w, data, outcome) ==
    LET t == data.uuid
    IN  IF data.release THEN onRelease(s, w, t, outcome)
        ELSE IF data.path = "" THEN s
        ELSE IF data.path \notin ActionMap
        THEN workerPost(s, w, ErrorFrame(t, Str(MsgNoPath(data.path))))
        ELSE [s EXCEPT !.inv[t] = [NoInvocation EXCEPT !.st = "running", !.worker = w]]

\* context.dispatch(event, data)
ctxDispatch(s, t, event) ==
    workerPost([s EXCEPT !.inv[t].dispatched = TRUE], s.inv[t].worker,
               EventFrame(t, event))

\* context.retain(cleanup?)
ctxRetain(s, t, withCleanup) ==
    [s EXCEPT !.inv[t].retained = TRUE, !.inv[t].cleanup = withCleanup]

\* context.release(result?)
ctxRelease(s, t, x) ==
    IF s.inv[t].released THEN s
    ELSE LET w == s.inv[t].worker
             s1 == [s EXCEPT !.inv[t].released = TRUE, !.cleanups[w] = @ \ {t}]
         IN  workerPost(s1, w, ResultFrame(t, x))

\* the action's promise fulfils: the try branch after `await action.call(...)`
actionReturn(s, t, x) ==
    LET w == s.inv[t].worker
        s0 == [s EXCEPT !.inv[t].out = [kind |-> "return", val |-> x]]
    IN  IF s.inv[t].retained
        THEN LET s1 == IF s.inv[t].cleanup
                       THEN [s0 EXCEPT !.cleanups[w] = @ \cup {t}] ELSE s0
             IN  workerPost([s1 EXCEPT !.inv[t].st = "returned"], w, RetainedFrame(t))
        ELSE workerPost([s0 EXCEPT !.inv[t].st = "done"], w, ResultFrame(t, x))

\* the action throws or its promise rejects: the catch branch
actionThrow(s, t, err) ==
    workerPost([s EXCEPT !.inv[t].st = "done",
                         !.inv[t].out = [kind |-> "throw", val |-> err]],
               s.inv[t].worker, ErrorFrame(t, EncodeError(err)))

(* -------------------------- collectTransferables ----------------------- *)

\* A value is a graph of nodes 1..MaxNodes with root 1: a node is an
\* ArrayBuffer ("buffer"), an array, a plain object or a number, and kids are
\* its elements or the values of its keys in enumeration order. Every kid is
\* a node of higher number, so the graph is acyclic; a node may be the kid of
\* several nodes.
Kinds == {"buffer", "array", "object", "number"}
KidSeqs == UNION {[1..n -> 1..MaxNodes] : n \in 0..MaxKids}
ValueGraphs ==
    {g \in [1..MaxNodes -> [kind : Kinds, kids : KidSeqs]] :
        \A i \in 1..MaxNodes : \A j \in 1..Len(g[i].kids) : g[i].kids[j] > i}

NoScan == [graph |-> <<>>, result |-> <<>>, done |-> FALSE]

\* current && typeof current === 'object'
IsObject(g, n) == g[n].kind # "number"

\* the while loop: stack.pop(), then push the result or the kids
RECURSIVE collectLoop(_, _, _)
collectLoop(g, stack, result) ==
    IF stack = <<>> THEN result
    ELSE LET current == stack[Len(stack)]
             rest == SubSeq(stack, 1, Len(stack) - 1)
         IN  IF ~IsObject(g, current) THEN collectLoop(g, rest, result)
             ELSE IF g[current].kind = "buffer"
             THEN collectLoop(g, rest, Append(result, current))
             ELSE collectLoop(g, rest \o SelectSeq(g[current].kids,
                                                   LAMBDA k : IsObject(g, k)),
                              result)

\* collectTransferables(value), value being the root of g
collectTransferables(g) == collectLoop(g, <<1>>, <<>>)

(* ------------------------------- facade -------------------------------- *)

\* ScheduleOptions; "none" and 0 stand for an absent signal and timeout, and
\* NoOptions for `undefined`
NoOptions == [signal |-> "none", timeout |-> 0]

\* Object.assign(() => {}, { options, path: '' }): the target of the proxy
NewProxy(options) == [path |-> "", options |-> options, accessed |-> <<>>]

\* the get trap: 'options' and 'path' read the field of the target, any other
\* key is appended to target.path
proxyGet(target, key) ==
    IF key = "options" \/ key = "path" THEN target
    ELSE [target EXCEPT !.path = IF @ # "" THEN @ \o "." \o key ELSE key]

\* the apply trap: options and path are taken and reset, then pool.schedule
proxyApply(s) ==
    LET opts == s.proxy.options
        path == s.proxy.path
        s1 == [s EXCEPT !.proxy = [path |-> "", options |-> NoOptions,
                                   accessed |-> <<>>]]
    IN  schedule(s1, path, opts.signal, opts.timeout)

(* ------------------------------ actions -------------------------------- *)

\* a step to state n, within the bound on the workers ever constructed
Step(n) == n.nextWorker <= MaxWorkers + 1 /\ Commit(n)

Cost(b) == IF b THEN 1 ELSE 0
\* the state s after paying n of what is left of MaxExtras
Pay(s, n) == [s EXCEPT !.extras = @ - n]

TaskIds == 1..(nextTask - 1)
LiveWorkers == DOMAIN inbox
Outcomes == [kind : {"return"}, val : Results] \cup [kind : {"throw"}, val : Thrown]

\* the state after new Pool(url, { idleTimeout: optIdle, limit: optLimit }) on
\* a host of hw logical processors, with budget environment choices left
InitPool(hw, optLimit, optIdle, budget) ==
        LET s == constructor(hw, optLimit, optIdle)
        IN  /\ available = s.available /\ cleanup = s.cleanup
            /\ completed = s.completed /\ idleTimeout = s.idleTimeout
            /\ idleTimers = s.idleTimers /\ limit = s.limit
            /\ pending = s.pending /\ queue = s.queue /\ tasks = s.tasks
            /\ workers = s.workers /\ task = s.task /\ handle = s.handle
            /\ nextTask = s.nextTask /\ nextWorker = s.nextWorker
            /\ terminated = s.terminated /\ inbox = s.inbox /\ outbox = s.outbox
            /\ inv = s.inv /\ cleanups = s.cleanups /\ shutdowns = s.shutdowns
            /\ extras = budget - Cost(optIdle > 0) /\ sent = s.sent
            /\ proxy = NewProxy(NoOptions)
            /\ enqueued = s.enqueued /\ faults = s.faults

\* the same with no call of collectTransferables under observation
InitWith(hw, optLimit, optIdle, budget) ==
    InitPool(hw, optLimit, optIdle, budget) /\ scan = NoScan

InitOf(hw, optLimit, optIdle) == InitWith(hw, optLimit, optIdle, MaxExtras)

Init ==
    \E hw \in HardwareConcurrency, optLimit \in OptLimits, optIdle \in IdleTimeouts :
        InitOf(hw, optLimit, optIdle)

\* the caller invokes the facade
ScheduleOf(paths) ==
    /\ nextTask <= MaxTasks
    /\ \E path \in paths, signal \in Signals, timeout \in Timeouts :
          LET cost == Cost(signal # "none") + Cost(timeout # 0) + Cost(path # "add")
          IN  /\ cost <= extras
              /\ Step(schedule(Pay(St, cost), path, signal, timeout))

Schedule == ScheduleOf(Paths)

\* collectTransferables is called with the value
Collect ==
    /\ scan.graph # <<>> /\ ~scan.done
    /\ Step([St EXCEPT !.scan = [graph |-> scan.graph,
                                  result |-> collectTransferables(scan.graph),
                                  done |-> TRUE]])

\* the caller asks the facade for an accessor: pool(url)(options)
ProxyCreate ==
    \E options \in AccessorOptions :
        Step([St EXCEPT !.proxy = NewProxy(options)])

\* the caller reads a property of the accessor
ProxyGetOf(key) ==
    /\ Len(proxy.accessed) < MaxAccess
    /\ Step([St EXCEPT !.proxy = [proxyGet(@, key) EXCEPT
                                     !.accessed = Append(@, key)]])

ProxyGet == \E key \in PropertyKeys : ProxyGetOf(key)

\* the caller invokes the accessor
ProxyApply ==
    /\ nextTask <= MaxTasks
    /\ Step(proxyApply(St))

\* the caller aborts the signal of a task: the listener runs once
AbortSignalOf(t) ==
    /\ t \in TaskIds
    /\ task[t].signal = "live" /\ task[t].listener
    /\ Step(abortListener([St EXCEPT !.task[t].signal = "aborted",
                                     !.task[t].listener = FALSE], t))

AbortSignal == \E t \in TaskIds : AbortSignalOf(t)

\* the timeout timer of a task fires
TaskTimeoutOf(t) ==
    /\ t \in TaskIds
    /\ task[t].timerWorker # 0
    /\ Step(timeoutCallback(St, t))

TaskTimeout == \E t \in TaskIds : TaskTimeoutOf(t)

\* the idle timer of a worker fires
IdleTimeoutOf(w) == w \in idleTimers /\ Step(idleCallback(St, w))

IdleTimeout == \E w \in idleTimers : IdleTimeoutOf(w)

\* the transport reports an error of a live worker
WorkerErrorOf(w, message) ==
    /\ w \in LiveWorkers
    /\ extras > 0
    /\ Step(onerror(Pay(St, 1), w, message))

WorkerError ==
    \E w \in LiveWorkers, message \in TransportMessages : WorkerErrorOf(w, message)

\* the pool receives the next frame of a worker
PoolReceiveOf(w) ==
    /\ w \in LiveWorkers
    /\ outbox[w] # <<>>
    /\ Step(onmessage([St EXCEPT !.outbox[w] = Tail(@)], w, Head(outbox[w])))

PoolReceive == \E w \in LiveWorkers : PoolReceiveOf(w)

\* the caller asks a handle to release: promise.dispatch('release')
CallerReleaseOf(t) ==
    /\ t \in TaskIds
    /\ extras > 0
    /\ Step(promiseDispatch(Pay(St, 1), t, "release"))

CallerRelease == \E t \in TaskIds : CallerReleaseOf(t)

\* the caller shuts the pool down
Shutdown ==
    /\ extras > 0
    /\ Step(shutdown(Pay(St, 1)))

\* a worker receives the next frame of the pool
WorkerReceiveOf(w) ==
    /\ w \in LiveWorkers
    /\ inbox[w] # <<>>
    /\ \E outcome \in Outcomes :
          Step(workerOnmessage([St EXCEPT !.inbox[w] = Tail(@)], w,
                               Head(inbox[w]), outcome))

WorkerReceive == \E w \in LiveWorkers : WorkerReceiveOf(w)

ActionDispatch ==
    \E t \in TaskIds, event \in EventNames :
        /\ inv[t].st \in {"running", "returned"}
        /\ extras > 0
        /\ Step(ctxDispatch(Pay(St, 1), t, event))

ActionRetain ==
    \E t \in TaskIds, withCleanup \in BOOLEAN :
        /\ inv[t].st = "running" /\ ~inv[t].retained
        /\ extras > 0
        /\ Step(ctxRetain(Pay(St, 1), t, withCleanup))

ActionReleaseOf(t) ==
    /\ t \in TaskIds
    /\ inv[t].st \in {"running", "returned"}
    /\ extras > 0
    /\ \E x \in Results : Step(ctxRelease(Pay(St, 1), t, x))

ActionRelease == \E t \in TaskIds : ActionReleaseOf(t)

ActionReturnOf(t) ==
    /\ t \in TaskIds
    /\ inv[t].st = "running"
    /\ \E x \in Results :
          /\ Cost(x # Num("5")) <= extras
          /\ Step(actionReturn(Pay(St, Cost(x # Num("5"))), t, x))

ActionReturn == \E t \in TaskIds : ActionReturnOf(t)

ActionThrow ==
    \E t \in TaskIds, err \in Thrown :
        /\ inv[t].st = "running"
        /\ extras > 0
        /\ Step(actionThrow(Pay(St, 1), t, err))

Next ==
    \/ Schedule
    \/ AbortSignal
    \/ TaskTimeout
    \/ IdleTimeout
    \/ WorkerError
    \/ PoolReceive
    \/ CallerRelease
    \/ Shutdown
    \/ WorkerReceive
    \/ ActionDispatch
    \/ ActionRetain
    \/ ActionRelease
    \/ ActionReturn
    \/ ActionThrow

Spec == Init /\ [][Next]_vars

(* ------------------- the pool under a fair scheduler -------------------- *)

\* Pools of at least one worker, without idle eviction, whose actions are all
\* found, make no context call and return or throw: every frame a live worker
\* receives is answered.
InitLive ==
    \E hw \in HardwareConcurrency, optLimit \in {l \in OptLimits : l >= 0} :
        InitOf(hw, optLimit, 0)

ScheduleKnown == ScheduleOf(ActionMap)

LiveNext ==
    \/ ScheduleKnown
    \/ AbortSignal
    \/ TaskTimeout
    \/ WorkerError
    \/ PoolReceive
    \/ Shutdown
    \/ WorkerReceive
    \/ ActionReturn
    \/ ActionThrow

\* a frame of a live worker waits for the pool, which enables PoolReceive
PoolHasFrame == \E w \in LiveWorkers : outbox[w] # <<>>

\* a timeout timer is armed, which enables TaskTimeout
TimerArmed == \E t \in TaskIds : task[t].timerWorker # 0

\* the event loops deliver every posted frame (the pool's loop empties its
\* side again and again), every running action ends and every armed timer
\* fires (again and again none is armed); the caller and the transport owe
\* nothing
LiveFairness ==
    /\ []<>(~PoolHasFrame)
    /\ []<>(~TimerArmed)
    /\ WF_vars(WorkerReceive)
    /\ WF_vars(ActionReturn)

LiveSpec == InitLive /\ [][LiveNext]_vars /\ LiveFairness

(* --------------------------- the scanner alone -------------------------- *)

InitTransfer ==
    \E g \in ValueGraphs :
        /\ InitPool(1, 0, 0, 0)
        /\ scan = [graph |-> g, result |-> <<>>, done |-> FALSE]

TransferNext == Collect

TransferSpec == InitTransfer /\ [][TransferNext]_vars

(* ------------------------ the pool behind its facade -------------------- *)

\* The caller builds every path by property reads on an accessor; the actions
\* return without a context call.
InitFacade ==
    \E hw \in HardwareConcurrency, optLimit \in {l \in OptLimits : l >= 0} :
        InitWith(hw, optLimit, 0, 0)

FacadeNext ==
    \/ ProxyCreate
    \/ ProxyGet
    \/ ProxyApply
    \/ PoolReceive
    \/ WorkerReceive
    \/ ActionReturn

FacadeSpec == InitFacade /\ [][FacadeNext]_vars

(* ----------------------- the retained-task protocol --------------------- *)

\* Pools of at least one worker, without idle eviction, whose actions are all
\* found and end by returning; the action may retain and release, the caller
\* may release, abort and shut down. A retained task that is settled and then
\* released again takes three choices of the environment.
InitRetain ==
    \E hw \in HardwareConcurrency, optLimit \in {l \in OptLimits : l >= 0} :
        InitWith(hw, optLimit, 0, MaxRetainExtras)

RetainNext ==
    \/ ScheduleKnown
    \/ AbortSignal
    \/ TaskTimeout
    \/ PoolReceive
    \/ CallerRelease
    \/ Shutdown
    \/ WorkerReceive
    \/ ActionRetain
    \/ ActionRelease
    \/ ActionReturn

RetainSpec == InitRetain /\ [][RetainNext]_vars

(* ------------------------------ properties ------------------------------ *)

Settled(t) == t \in DOMAIN handle /\ handle[t].st # "pending"
RejectedWith(h, m) == h.st = "rejected" /\ h.val = Err(m)

\* C1: under the fair scheduler every task that schedule admitted (it was
\* dispatched or enqueued) eventually has its handle settled, with no further
\* schedule call needed.
C1_AdmittedEventuallySettled ==
    \A t \in 1..MaxTasks :
        [](t \in Range(sent) \cup Range(enqueued) => <>Settled(t))

\* C2: when the reply of the worker settles the handle of a task whose action
\* made no context call, a returned value resolves it with that value and a
\* thrown value rejects it with the message of what was thrown.
C2_ReplySettlesAsActionEnded ==
    \A t \in TaskIds :
        LET i == inv[t]
            h == handle[t]
            message == IF i.out.val.ty = "Error" THEN i.out.val.v
                       ELSE JSString(i.out.val)
        IN  (/\ h.by = "reply" /\ i.out.kind # "none"
             /\ ~i.retained /\ ~i.released /\ ~i.dispatched)
            => IF i.out.kind = "return"
               THEN h.st = "resolved" /\ h.val = i.out.val
               ELSE RejectedWith(h, message)

RetainedInPending ==
    Cardinality({w \in DOMAIN pending : task[pending[w]].retained})

\* C3 as stated: |pending| + |available| + |retained tasks in pending| <=
\* |workers| <= limit.
C3_CountsWithRetainedTwice ==
    /\ Cardinality(DOMAIN pending) + Len(available) + RetainedInPending
           <= Len(workers)
    /\ Len(workers) <= limit

\* C3 amended: |pending| + |available| <= |workers|, a retained task counting
\* once as an entry of pending, and |workers| <= limit when limit >= 1, while
\* a pool built with a negative limit never has a worker.
C3_PoolCounts ==
    /\ Cardinality(DOMAIN pending) + Len(available) <= Len(workers)
    /\ Len(workers) <= (IF limit >= 1 THEN limit ELSE 0)

\* a worker holds a retained task while another worker is idle
C3_RetainedBesideIdle ==
    /\ RetainedInPending > 0
    /\ Len(available) > 0

\* C4: each worker is bound to at most one unsettled task: no key of pending
\* is an element of available, no worker is twice in available, and dispatch
\* was never called with a worker that is a key of pending.
C4_OneTaskPerWorker ==
    /\ Range(available) \cap DOMAIN pending = {}
    /\ \A i, j \in 1..Len(available) : available[i] = available[j] => i = j
    /\ "dispatch to a bound worker" \notin faults

\* a worker came back through markAvailable while another one is busy
C4_BusyBesideReturned ==
    /\ DOMAIN pending # {}
    /\ Len(available) > 0
    /\ completed > 0

PosIn(seq, x) == CHOOSE i \in 1..Len(seq) : seq[i] = x

\* C5: of two tasks that entered the queue, the earlier one not aborted, the
\* request frame of the later one is sent only after that of the earlier.
C5_QueueIsFifo ==
    \A i, j \in 1..Len(enqueued) :
        LET A == enqueued[i]
            B == enqueued[j]
        IN  (i < j /\ ~task[A].aborted /\ B \in Range(sent))
            => (A \in Range(sent) /\ PosIn(sent, A) < PosIn(sent, B))

\* two tasks went through the queue and both were sent
C5_TwoQueuedSent ==
    \E i, j \in 1..Len(enqueued) :
        i < j /\ enqueued[i] \in Range(sent) /\ enqueued[j] \in Range(sent)

\* C6: once shutdown() has been called no request frame is sent, and a
\* schedule call returns a handle rejected with 'pool is shutting down'
\* leaving workers, pending, tasks and the queue as they are.
C6_NothingSentAfterShutdown ==
    [][Len(shutdowns) > 0 =>
          /\ sent' = sent
          /\ nextTask' # nextTask =>
                /\ RejectedWith(handle'[nextTask], MsgShuttingDown)
                /\ UNCHANGED <<workers, pending, tasks, queue>>]_vars

\* a schedule call was made after shutdown()
C6_ScheduledAfterShutdown ==
    \E t \in TaskIds :
        Len(shutdowns) > 0 /\ RejectedWith(handle[t], MsgShuttingDown)

\* what a schedule call with an aborted signal leaves alone
PoolUntouched ==
    UNCHANGED <<available, workers, pending, tasks, queue, enqueued, terminated,
                nextWorker, idleTimers, inbox, sent>>

\* C7 as stated: a schedule call whose signal is already aborted rejects the
\* handle with 'task aborted' and leaves the pool unchanged, no listener
\* registered.
C7_PreAbortedAlwaysTaskAborted ==
    [][(nextTask' # nextTask /\ task'[nextTask].signal = "aborted") =>
          /\ RejectedWith(handle'[nextTask], MsgAborted)
          /\ ~task'[nextTask].listener
          /\ PoolUntouched]_vars

\* C7 amended: such a call rejects the handle with 'task aborted', or with
\* 'pool is shutting down' when shutdown() was called before, and in both
\* cases leaves the pool unchanged, no listener registered.
C7_PreAbortedRejected ==
    [][(nextTask' # nextTask /\ task'[nextTask].signal = "aborted") =>
          /\ RejectedWith(handle'[nextTask],
                          IF cleanup.kind # "null" THEN MsgShuttingDown
                          ELSE MsgAborted)
          /\ ~task'[nextTask].listener
          /\ PoolUntouched]_vars

\* a call with an aborted signal was rejected with 'task aborted'
C7_PreAbortedSeen ==
    \E t \in TaskIds :
        /\ task[t].signal = "aborted" /\ handle[t].by = "schedule"
        /\ RejectedWith(handle[t], MsgAborted)

\* C8: when the abort listener rejected the handle of a task that had been
\* sent to a worker, that worker was already terminated at the rejection, is
\* no element of workers or available, the task is in neither pending nor
\* tasks and its timeout timer is not armed.
C8_AbortTerminatesBeforeReject ==
    \A t \in TaskIds :
        (handle[t].by = "abort" /\ task[t].sentTo # 0) =>
            /\ ~handle[t].live
            /\ task[t].sentTo \in terminated
            /\ task[t].sentTo \notin Range(workers) \cup Range(available)
            /\ t \notin tasks
            /\ \A w \in DOMAIN pending : pending[w] # t
            /\ task[t].timerWorker = 0

\* a task with a timeout was aborted while a worker executed it
C8_ExecutingAborted ==
    \E t \in TaskIds :
        handle[t].by = "abort" /\ task[t].sentTo # 0 /\ task[t].timeout > 0

\* C9 as stated: a task whose aborted flag is set has its handle rejected
\* with 'task aborted'.
C9_AbortedMeansTaskAborted ==
    \A t \in TaskIds : task[t].aborted => RejectedWith(handle[t], MsgAborted)

\* C9 amended: the step that sets the aborted flag of a task rejects its
\* handle with 'task aborted' if the handle was unsettled and leaves the
\* handle as it was if it was settled; from then on the handle never changes.
C9_AbortSettlesUnsettled ==
    [][\A t \in TaskIds :
          /\ (~task[t].aborted /\ task'[t].aborted) =>
                IF handle[t].st = "pending"
                THEN RejectedWith(handle'[t], MsgAborted)
                ELSE handle'[t] = handle[t]
          /\ task[t].aborted => (task'[t].aborted /\ handle'[t] = handle[t])]_vars

\* the signal of a task fired after the reply of the worker settled its handle
C9_AbortedAfterReply ==
    \E t \in TaskIds : task[t].aborted /\ handle[t].by = "reply"

\* C10: the step in which the signal of a queued task fires rejects its
\* handle with 'task aborted' and neither terminates nor creates a worker nor
\* sends a frame, and a task whose signal fired before its request frame was
\* sent never has it sent.
C10_QueuedAbortNeverSent ==
    [][\A t \in TaskIds :
          /\ (/\ t \in Range(queue)
              /\ task[t].signal = "live" /\ task'[t].signal = "aborted") =>
                /\ RejectedWith(handle'[t], MsgAborted)
                /\ UNCHANGED <<workers, terminated, nextWorker, sent>>
          /\ (task[t].signal = "aborted" /\ t \notin Range(sent)) =>
                t \notin Range(sent')]_vars

\* a task aborted in the queue was passed over when a worker came free
C10_QueuedAbortedSkipped ==
    \E t \in TaskIds :
        /\ handle[t].by = "abort" /\ t \in Range(enqueued)
        /\ t \notin Range(queue) /\ t \notin Range(sent)

\* the first task of q that is not aborted, 0 if there is none
FirstLive(q) ==
    IF SkipAborted(q, task) = <<>> THEN 0 ELSE Head(SkipAborted(q, task))

\* C11: the step in which the timeout timer of a task fires rejects its
\* handle with 'task timed out after <ms>ms', takes the task out of pending
\* and tasks, terminates its worker and puts a new worker in available before
\* processQueue runs (the new worker takes the first live task of the queue
\* if there is one and the pool is not shutting down); and only a task with
\* timeout > 0 ever has a timer armed or a handle settled by a timeout.
C11_TimeoutReplacesWorker ==
    /\ [](\A t \in TaskIds :
            (task[t].timerWorker # 0 \/ handle[t].by = "timeout") =>
                task[t].timeout > 0)
    /\ [][\A t \in TaskIds : TaskTimeoutOf(t) =>
            LET old == task[t].timerWorker
                new == nextWorker
                next == IF cleanup.kind = "null" THEN FirstLive(queue) ELSE 0
            IN  /\ RejectedWith(handle'[t], MsgTimedOut(task[t].timeout))
                /\ t \notin tasks'
                /\ \A w \in DOMAIN pending' : pending'[w] # t
                /\ old \in terminated' /\ old \notin Range(workers')
                /\ nextWorker' = new + 1 /\ new \in Range(workers')
                /\ IF next = 0 THEN Last(available') = new
                   ELSE new \in DOMAIN pending' /\ pending'[new] = next]_vars

\* a timer fired while another task waited in the queue
C11_TimedOutWithQueue ==
    \E t \in TaskIds :
        /\ handle[t].by = "timeout"
        /\ \E w \in DOMAIN pending : pending[w] \in Range(enqueued)

Executing(t) == \E w \in DOMAIN pending : pending[w] = t

\* a timeout or an abort of an executing task: one worker terminated, one
\* created, |workers| unchanged
ReplacingSteps ==
    \A t \in TaskIds :
        (TaskTimeoutOf(t) \/ (Executing(t) /\ AbortSignalOf(t))) =>
            /\ Len(workers') = Len(workers)
            /\ nextWorker' = nextWorker + 1
            /\ Cardinality(terminated') = Cardinality(terminated) + 1

\* a worker is created by a timeout, by an abort of an executing task or by
\* a schedule call finding available empty and |workers| < limit
CreatingSteps ==
    nextWorker' # nextWorker =>
        \/ \E t \in TaskIds : TaskTimeoutOf(t) \/ (Executing(t) /\ AbortSignalOf(t))
        \/ Schedule /\ available = <<>> /\ Len(workers) < limit

C13_CrashSettlesHeldTask ==
    [][\A w \in LiveWorkers, m \in TransportMessages :
          (w \in DOMAIN pending /\ WorkerErrorOf(w, m)) =>
              LET t == pending[w]
              IN  /\ task'[t].timerWorker = 0
                  /\ RejectedWith(handle'[t],
                                  IF m = "" THEN MsgWorkerError ELSE m)
                  /\ t \notin tasks' /\ tasks' = tasks \ {t}
                  /\ pending' = MapDelete(pending, w)
                  /\ terminated' = terminated \cup {w}
                  /\ workers' = Without(workers, w)
                  /\ available' = Without(available, w)
                  /\ idleTimers' = idleTimers \ {w}
                  /\ nextWorker' = nextWorker /\ sent' = sent
                  /\ \A u \in TaskIds \ {t} : handle'[u] = handle[u]]_vars

\* a worker crashed, giving no message, with a task whose timer was armed
C13_CrashedWithTimer ==
    \E t \in TaskIds :
        /\ handle[t].by = "error" /\ task[t].timeout > 0
        /\ handle[t].val = Err(MsgWorkerError)

\* C14: when shutdown() was called with pending not empty, then once pending
\* is empty, by whatever handler the last task left it, every worker is
\* terminated and the promise shutdown() returned is resolved.
C14_DrainResolvesWhenPendingEmpty ==
    (cleanup.kind = "drain" /\ DOMAIN pending = {}) =>
        /\ shutdowns[cleanup.promise] = "resolved"
        /\ workers = <<>>
        /\ LiveWorkers = {}

ShutdownResolved == \E i \in DOMAIN shutdowns : shutdowns[i] = "resolved"

\* C15: once a promise returned by shutdown() has resolved, workers,
\* available, pending and tasks are empty and every worker ever created is
\* terminated, so that no frame can come from a running worker and a frame
\* of a terminated one finds no task to act on.
C15_EmptyAfterShutdownResolved ==
    ShutdownResolved =>
        /\ workers = <<>> /\ available = <<>>
        /\ DOMAIN pending = {} /\ tasks = {}
        /\ terminated = 1..(nextWorker - 1)
        /\ LiveWorkers = {}

\* the drain of a shutdown() ran after the last reply
C15_DrainedAndResolved ==
    /\ ShutdownResolved /\ cleanup.kind = "drain"
    /\ completed > 0 /\ nextWorker > 1

\* the frame at the head of the outbox of w completes task t
CompletionOf(w, t) ==
    /\ w \in LiveWorkers /\ outbox[w] # <<>>
    /\ Head(outbox[w]).uuid = t /\ t \in tasks
    /\ Head(outbox[w]).event = Undefined /\ ~Head(outbox[w]).retained

\* a shutdown() call leaves alone the tasks that are executing, and when the
\* pool is shutting down the reply that completes a task still settles it
ShutdownSparesExecuting ==
    /\ Shutdown => \A w \in DOMAIN pending :
          /\ handle'[pending[w]] = handle[pending[w]]
          /\ w \in DOMAIN pending' /\ pending'[w] = pending[w]
          /\ pending[w] \in tasks' /\ w \notin terminated'
    /\ \A w \in LiveWorkers, t \in TaskIds :
          (cleanup.kind # "null" /\ CompletionOf(w, t) /\ PoolReceiveOf(w)) =>
              handle'[t].by = "reply"

\* C16 as stated: shutdown() empties the queue and rejects the handle of
\* every task in it with 'pool closing'; executing tasks are not rejected and
\* still settle with the reply of their worker.
C16_EveryQueuedPoolClosing ==
    [][/\ Shutdown =>
             /\ queue' = <<>>
             /\ \A t \in Range(queue) : RejectedWith(handle'[t], MsgClosing)
       /\ ShutdownSparesExecuting]_vars

\* C16 amended: shutdown() empties the queue and rejects with 'pool closing'
\* the handle of every task in it that is unsettled, a task aborted in the
\* queue keeping its 'task aborted'; executing tasks are not rejected and
\* still settle with the reply of their worker.
C16_QueuedRejectedOnShutdown ==
    [][/\ Shutdown =>
             /\ queue' = <<>>
             /\ \A t \in Range(queue) :
                   IF handle[t].st = "pending"
                   THEN RejectedWith(handle'[t], MsgClosing)
                   ELSE handle'[t] = handle[t] /\ RejectedWith(handle[t], MsgAborted)
       /\ ShutdownSparesExecuting]_vars

\* in a pool of one worker a queued task was rejected by shutdown() and the
\* task that was executing settled with its reply
C16_QueuedClosedExecutingReplied ==
    \E t, u \in TaskIds :
        /\ limit = 1 /\ u < t
        /\ handle[t].by = "shutdown" /\ handle[u].by = "reply"

\* what the reply to a release frame must be: the value the cleanup returned,
\* its error when it threw, undefined when no cleanup was registered
ReleaseReply(t, has, outcome) ==
    IF ~has THEN ResultFrame(t, Undefined)
    ELSE IF outcome.kind = "return" THEN ResultFrame(t, outcome.val)
    ELSE ErrorFrame(t, EncodeError(outcome.val))

\* the handle settled as the reply frame f says
SettledAs(h, f) ==
    IF f.error = Undefined THEN h.st = "resolved" /\ h.val = f.result
    ELSE RejectedWith(h, IF f.error.ty = "object" THEN f.error.v
                         ELSE JSString(f.error))

\* a shutdown() call sends one release frame to the worker of each task of
\* pending whose retained flag is set, and none to the other workers
ShutdownReleasesRetained ==
    Shutdown => \A w \in DOMAIN pending :
        /\ w \in DOMAIN inbox'
        /\ inbox'[w] = IF task[pending[w]].retained
                       THEN Append(inbox[w], ReleaseFrame(pending[w]))
                       ELSE inbox[w]

\* the worker answers a release frame with what its cleanup did
WorkerAnswersRelease ==
    \A w \in LiveWorkers :
        (inbox[w] # <<>> /\ Head(inbox[w]).release /\ WorkerReceiveOf(w)) =>
            \E outcome \in Outcomes :
                outbox'[w] = Append(outbox[w],
                                    ReleaseReply(Head(inbox[w]).uuid,
                                                 Head(inbox[w]).uuid \in cleanups[w],
                                                 outcome))

\* the worker of a retained task of a pool that is shutting down is
\* terminated only by a crash, by an abort of the task, or by the step that
\* processes the reply
RetainedWorkerKept ==
    \A w \in DOMAIN pending :
        (/\ cleanup.kind # "null" /\ task[pending[w]].retained
         /\ w \in terminated' \ terminated) =>
            \/ WorkerError \/ AbortSignalOf(pending[w])
            \/ CompletionOf(w, pending[w]) /\ PoolReceiveOf(w)

\* C17: shutdown() sends one release frame to the worker of exactly each
\* retained task of pending; the worker answers with the return value of the
\* cleanup, its error, or undefined; the pool settles the task with that
\* reply (resolved with the value, rejected with the error); and the worker
\* is not terminated before the reply is processed.
C17_ShutdownReleaseSettles ==
    [][/\ ShutdownReleasesRetained
       /\ WorkerAnswersRelease
       /\ \A w \in DOMAIN pending :
             (/\ cleanup.kind # "null" /\ task[pending[w]].retained
              /\ CompletionOf(w, pending[w]) /\ PoolReceiveOf(w)) =>
                 SettledAs(handle'[pending[w]], Head(outbox[w]))
       /\ RetainedWorkerKept]_vars

\* the pool processed a retained ack of t and the handle of t is unsettled
HeldRetained(t) == task[t].retained /\ handle[t].st = "pending"

\* C18: from the retained ack of a task until its handle settles, also while
\* the pool is shutting down, the timer of the task is not armed, the task is
\* in tasks and in pending on the worker that sent the ack and that worker is
\* not in available; no step that leaves the handle unsettled is the timer
\* of the task firing or sends a request frame to that worker.
C18_RetainedStaysBound ==
    /\ [](\A t \in TaskIds : HeldRetained(t) =>
            /\ task[t].timerWorker = 0
            /\ t \in tasks
            /\ task[t].worker \in DOMAIN pending
            /\ pending[task[t].worker] = t
            /\ task[t].worker \notin Range(available))
    /\ [][\A t \in TaskIds : (HeldRetained(t) /\ handle'[t].st = "pending") =>
            /\ ~TaskTimeoutOf(t)
            /\ \A u \in 1..(nextTask' - 1) :
                  (u \in Range(sent') \ Range(sent)) =>
                      task'[u].sentTo # task[t].worker]_vars

\* the ack of a task with a timeout was processed while another task waits
\* in the queue
C18_RetainedWithTimeoutAndQueue ==
    \E t \in TaskIds :
        HeldRetained(t) /\ task[t].timeout > 0 /\ queue # <<>>

\* a release frame of t was posted in this step to the worker bound to t
ReleaseFrameSent(t) ==
    /\ task[t].worker \in DOMAIN inbox
    /\ inbox'[task[t].worker] = Append(inbox[task[t].worker], ReleaseFrame(t))

\* what the pool holds; the frames in flight and the budget are not part of it
PoolState ==
    <<available, cleanup, completed, idleTimers, pending, queue, tasks,
      workers, task, handle, terminated, shutdowns>>

\* C19: a release call on a handle posts a release frame to the bound worker
\* exactly when the pool processed a retained ack of the task and the handle
\* is not settled; on a handle whose task was never reported retained it
\* posts nothing and changes nothing of the pool.
C19_ReleaseSendsIffHeld ==
    [][\A t \in TaskIds : CallerReleaseOf(t) =>
          /\ ReleaseFrameSent(t) <=> HeldRetained(t)
          /\ ~task[t].retained => (inbox' = inbox /\ PoolState' = PoolState)]_vars

\* the frame at the head of the outbox of w is an event frame of a task the
\* pool knows
EventFrameOf(w) ==
    /\ w \in LiveWorkers /\ outbox[w] # <<>>
    /\ Head(outbox[w]).event.ty = "string"
    /\ Head(outbox[w]).uuid \in tasks

\* C20: when the pool processes an event frame of a known task, whatever the
\* event name, the task stays in pending and in tasks, its handle is not
\* settled, completed is unchanged, its timer stays as it was and its worker
\* is not returned to available.
C20_EventFrameOnlyDispatches ==
    [][\A w \in LiveWorkers : (EventFrameOf(w) /\ PoolReceiveOf(w)) =>
          LET t == Head(outbox[w]).uuid
          IN  /\ pending' = pending /\ tasks' = tasks
              /\ handle'[t] = handle[t]
              /\ completed' = completed
              /\ task'[t].timerWorker = task[t].timerWorker
              /\ available' = available /\ queue' = queue]_vars

\* the frame at the head of the outbox of w carries a uuid that is not a key
\* of tasks
UnknownFrameOf(w) ==
    /\ w \in LiveWorkers /\ outbox[w] # <<>>
    /\ Head(outbox[w]).uuid \notin tasks

\* C21: when the pool processes a frame whose uuid is not a key of tasks,
\* whatever the kind of the frame, nothing the pool holds changes (handles,
\* task records, completed, pending, available, workers, queue, timers) and
\* no frame is posted to any worker.
C21_UnknownFrameIgnored ==
    [][\A w \in LiveWorkers : (UnknownFrameOf(w) /\ PoolReceiveOf(w)) =>
          /\ PoolState' = PoolState
          /\ inbox' = inbox /\ sent' = sent /\ nextWorker' = nextWorker]_vars

\* an action called context.release and then returned: its second frame
\* arrived after the first settled the task, and the pool has processed both
C21_LateFrameProcessed ==
    \E t \in TaskIds :
        /\ inv[t].released /\ inv[t].st = "done"
        /\ inv[t].worker \in LiveWorkers /\ outbox[inv[t].worker] = <<>>
        /\ handle[t].by = "reply" /\ t \notin tasks

\* the frame at the head of the inbox of w is a request frame
RequestFrameOf(w) ==
    /\ w \in LiveWorkers /\ inbox[w] # <<>>
    /\ ~Head(inbox[w]).release

\* C22: when a worker takes a request frame, whatever path the facade put in
\* it, either the path names an action and that action is invoked, or the
\* worker posts the error frame "path does not exist '<path>'" with the uuid
\* of the request and invokes nothing.
C22_RequestAlwaysAnswered ==
    [][\A w \in LiveWorkers : (RequestFrameOf(w) /\ WorkerReceiveOf(w)) =>
          LET f == Head(inbox[w])
          IN  IF f.path \in ActionMap
              THEN inv'[f.uuid].st = "running" /\ inv'[f.uuid].worker = w
              ELSE /\ outbox'[w] = Append(outbox[w],
                          ErrorFrame(f.uuid, Str(MsgNoPath(f.path))))
                   /\ inv' = inv]_vars

\* max(1, hardwareConcurrency - 1)
DefaultMax(hw) == IF hw - 1 > 1 THEN hw - 1 ELSE 1

\* C23: the limit of the pool is at least 1; for every hardware concurrency
\* and every options.limit the constructor computes a limit between 1 and
\* max(1, hardwareConcurrency - 1), and exactly that maximum when the limit is
\* absent.
C23_LimitClamped ==
    /\ limit >= 1
    /\ \A hw \in HardwareConcurrency, optLimit \in OptLimits :
          LET pool == constructor(hw, optLimit, idleTimeout)
          IN  /\ pool.limit \in 1..DefaultMax(hw)
              /\ optLimit = 0 => pool.limit = DefaultMax(hw)

\* C24: while idleTimeout > 0 and shutdown() has not been called, every
\* worker in available has an armed idle timer, however it got there.
C24_AvailableHasIdleTimer ==
    (idleTimeout > 0 /\ cleanup.kind = "null") =>
        \A w \in Range(available) : w \in idleTimers

\* C30: an idle timer is armed only while idleTimeout > 0 and only for a
\* worker that is in available: not for one that executes a task, that is
\* terminated or that belonged to a pool whose shutdown has completed.
C30_IdleTimerOnlyForAvailable ==
    \A w \in idleTimers :
        /\ idleTimeout > 0
        /\ w \in Range(available)
        /\ w \notin DOMAIN pending /\ w \notin terminated
        /\ ~ShutdownResolved

\* the names in keys joined by '.'
RECURSIVE JoinDots(_)
JoinDots(keys) ==
    IF keys = <<>> THEN ""
    ELSE IF Len(keys) = 1 THEN keys[1]
    ELSE keys[1] \o "." \o JoinDots(Tail(keys))

\* C25: an invocation of the accessor submits as path the property names read
\* since the accessor was created or last invoked, joined by '.', in the order
\* read, and leaves the accumulated path empty; a property read sends nothing
\* and schedules nothing.
C25_PathIsNamesJoined ==
    [][/\ ProxyApply =>
            /\ task'[nextTask].path = JoinDots(proxy.accessed)
            /\ proxy'.path = "" /\ proxy'.accessed = <<>>
       /\ ProxyGet =>
            /\ PoolState' = PoolState /\ nextTask' = nextTask
            /\ inbox' = inbox /\ sent' = sent /\ enqueued' = enqueued]_vars

\* the buffers reachable from node n through arrays and objects
RECURSIVE ReachableBuffers(_, _)
ReachableBuffers(g, n) ==
    IF g[n].kind = "buffer" THEN {n}
    ELSE IF g[n].kind = "number" THEN {}
    ELSE UNION {ReachableBuffers(g, g[n].kids[j]) : j \in 1..Len(g[n].kids)}

\* C26: collectTransferables returns every buffer reachable from the value
\* through arrays and objects, nothing else (so nothing found only inside a
\* buffer), and each of them once.
C26_EachTransferableOnce ==
    scan.done =>
        /\ Range(scan.result) = ReachableBuffers(scan.graph, 1)
        /\ \A i, j \in 1..Len(scan.result) :
              scan.result[i] = scan.result[j] => i = j

\* an action invoked by a request is still running in worker w
ActionRunningIn(w) ==
    \E t \in TaskIds : inv[t].worker = w /\ inv[t].st = "running"

\* C27: no step sends a request frame to a worker in which the action of an
\* earlier request is still running.
C27_NoRequestWhileActionRuns ==
    [][\A u \in 1..(nextTask' - 1) :
          (u \in Range(sent') \ Range(sent)) =>
              ~ActionRunningIn(task'[u].sentTo)]_vars

\* the frame at the head of the inbox of w is a release frame
ReleaseFrameOf(w) ==
    /\ w \in LiveWorkers /\ inbox[w] # <<>>
    /\ Head(inbox[w]).release

\* the frames a cleanup can be answered with: its return value, or what it
\* threw, encoded
CleanupReplies(t) ==
    {ResultFrame(t, x) : x \in Results} \cup
    {ErrorFrame(t, EncodeError(e)) : e \in Thrown}

\* C28: when a worker takes a release frame and a cleanup is registered under
\* its uuid, the cleanup is removed and invoked once and the worker posts
\* one frame, the result it returned or the error it threw; when none is
\* registered the worker posts {uuid, result: undefined} and invokes nothing.
\* No cleanup is ever invoked twice, however many release frames arrive.
C28_CleanupRunsOncePerRelease ==
    /\ [][\A w \in LiveWorkers : (ReleaseFrameOf(w) /\ WorkerReceiveOf(w)) =>
             LET t == Head(inbox[w]).uuid
             IN  /\ cleanups'[w] = cleanups[w] \ {t}
                 /\ \A u \in TaskIds \ {t} : inv'[u] = inv[u]
                 /\ IF t \in cleanups[w]
                    THEN /\ inv'[t].cleaned = inv[t].cleaned + 1
                         /\ \E f \in CleanupReplies(t) :
                               outbox'[w] = Append(outbox[w], f)
                    ELSE /\ inv'[t] = inv[t]
                         /\ outbox'[w] =
                               Append(outbox[w], ResultFrame(t, Undefined))]_vars
    /\ [](\A t \in TaskIds : inv[t].cleaned <= 1)

\* a worker has answered two release frames of one task: the first with what
\* the cleanup returned, the second, the cleanup gone, with undefined
C28_SecondReleaseFindsNone ==
    \E t \in TaskIds, w \in LiveWorkers :
        /\ inv[t].cleaned = 1 /\ t \notin cleanups[w]
        /\ Len(outbox[w]) >= 2
        /\ outbox[w][1] = ResultFrame(t, Num("5"))
        /\ outbox[w][2] = ResultFrame(t, Undefined)

\* C29: once an invocation has called context.release, no cleanup is
\* registered under its uuid in the worker it runs in, whether it called
\* release before or after the action returned, and a further call of
\* context.release posts nothing.
C29_ReleasedLeavesNoCleanup ==
    /\ [](\A t \in TaskIds :
            (inv[t].released /\ inv[t].worker \in LiveWorkers) =>
                t \notin cleanups[inv[t].worker])
    /\ [][\A t \in TaskIds : (inv[t].released /\ ActionReleaseOf(t)) =>
             outbox' = outbox]_vars

\* where a task is held
InQueue(t) == t \in Range(queue)
InPending(t) == \E w \in DOMAIN pending : pending[w] = t

\* C31 as stated: no task is in the queue and in pending at once, and no task
\* whose handle is settled is in the queue, in pending or in tasks.
C31_SettledHeldNowhere ==
    \A t \in TaskIds :
        /\ ~(InQueue(t) /\ InPending(t))
        /\ Settled(t) => (~InQueue(t) /\ ~InPending(t) /\ t \notin tasks)

\* C31 amended: no task is in the queue and in pending at once or twice in
\* the queue, a task is in pending exactly when it is in tasks, an unsettled
\* task is in the queue or in pending, and a task whose handle is settled is
\* neither in pending nor in tasks; it is in the queue only as a task that was
\* aborted while it waited, flagged aborted and rejected with 'task aborted',
\* which processQueue skips.
C31_OnePlacePerTask ==
    /\ \A i, j \in 1..Len(queue) : queue[i] = queue[j] => i = j
    /\ \A t \in TaskIds :
        /\ ~(InQueue(t) /\ InPending(t))
        /\ InPending(t) <=> t \in tasks
        /\ ~Settled(t) => (InQueue(t) \/ InPending(t))
        /\ Settled(t) =>
              /\ ~InPending(t) /\ t \notin tasks
              /\ InQueue(t) =>
                    (task[t].aborted /\ RejectedWith(handle[t], MsgAborted))

\* a task aborted while it waited is still in the queue, settled, behind the
\* task that is executing
C31_AbortedStillQueued ==
    \E t \in TaskIds :
        /\ InQueue(t) /\ Settled(t) /\ task[t].aborted
        /\ \E u \in TaskIds : InPending(u) /\ u # t

\* C32: pending.size + available.length = workers.length; the workers of the
\* pool are exactly the workers not terminated, and each of them is either a
\* key of pending or once in available, never both.
C32_BusyPlusIdleIsWorkers ==
    /\ Cardinality(DOMAIN pending) + Len(available) = Len(workers)
    /\ Range(workers) = LiveWorkers
    /\ Range(workers) = DOMAIN pending \cup Range(available)
    /\ DOMAIN pending \cap Range(available) = {}
    /\ \A i, j \in 1..Len(workers) : workers[i] = workers[j] => i = j

\* a retained task holds its worker beside an idle one after another worker
\* was terminated by a timeout, an abort, a crash or an eviction
C32_RetainedIdleAndTerminated ==
    /\ RetainedInPending > 0
    /\ Len(available) > 0
    /\ terminated # {}
    /\ cleanup.kind = "null"

\* C33: before shutdown(), whenever a task that is not aborted waits in the
\* queue, available is empty and workers.length equals limit.
C33_WorkConserving ==
    (cleanup.kind = "null" /\ \E i \in 1..Len(queue) : ~task[queue[i]].aborted) =>
        (available = <<>> /\ Len(workers) = limit)

\* C34: no schedule() call sends the request of the task it creates while a
\* task admitted earlier and not aborted is in the queue.
C34_NewTaskNeverOvertakes ==
    [][(Schedule /\ nextTask \in Range(sent')) =>
          \A i \in 1..Len(queue) : task[queue[i]].aborted]_vars

\* C35: once the pool has drained and a promise returned by shutdown() has
\* resolved, every promise returned by a shutdown() call has resolved: a later
\* call leaves no earlier promise unresolved.
C35_EveryShutdownPromiseResolves ==
    ShutdownResolved => \A i \in DOMAIN shutdowns : shutdowns[i] = "resolved"

\* the frame at the head of the outbox of w is the retained ack of a task the
\* pool knows
RetainedAckOf(w) ==
    /\ w \in LiveWorkers /\ outbox[w] # <<>>
    /\ Head(outbox[w]).retained /\ ~Truthy(Head(outbox[w]).event)
    /\ Head(outbox[w]).uuid \in tasks

\* C36: when the pool processes the retained ack of a task after shutdown()
\* was called, it sends the release frame of that task to the worker.
C36_LateAckIsReleased ==
    [][\A w \in LiveWorkers :
          (cleanup.kind # "null" /\ RetainedAckOf(w) /\ PoolReceiveOf(w)) =>
              inbox'[w] = Append(inbox[w], ReleaseFrame(Head(outbox[w]).uuid))]_vars

\* C37: after shutdown() was called no worker is created, and when a promise
\* returned by shutdown() has resolved no worker is left running.
C37_NoWorkerCreatedAfterShutdown ==
    /\ [][cleanup.kind # "null" =>
             (nextWorker' = nextWorker /\ Range(workers') \subseteq Range(workers))]_vars
    /\ [](ShutdownResolved => LiveWorkers = {})

\* the release frames among the frames on their way to the workers
ReleaseFramesIn(ib) ==
    {<<w, i>> \in (DOMAIN ib) \X (1..(MaxTasks + MaxRetainExtras)) :
        i <= Len(ib[w]) /\ ib[w][i].release}

\* C38: only a release call of the caller or a shutdown() call puts a release
\* frame on its way to a worker; no frame the pool receives from a worker
\* does.
C38_ReleaseOnlyByCallerOrShutdown ==
    [][(\E w \in DOMAIN inbox' :
           /\ w \in DOMAIN inbox
           /\ Cardinality(ReleaseFramesIn(inbox')) > Cardinality(ReleaseFramesIn(inbox))
           /\ Len(inbox'[w]) > Len(inbox[w]) /\ inbox'[w][Len(inbox'[w])].release)
          => (CallerRelease \/ Shutdown)]_vars

\* C39: the timeout timer of a task is armed only while the task is bound to
\* the worker the timer captured; the timer or the abort signal of a task
\* terminates only the worker bound to that task, and when the task is bound
\* to no worker the firing terminates no worker and changes no other task.
C39_TimerAndSignalHitOwnWorker ==
    /\ [](\A t \in TaskIds :
             task[t].timerWorker # 0 =>
                 /\ task[t].timerWorker \in DOMAIN pending
                 /\ pending[task[t].timerWorker] = t)
    /\ [][\A t \in TaskIds :
             (TaskTimeoutOf(t) \/ AbortSignalOf(t)) =>
                 /\ terminated' \ terminated \subseteq
                        {w \in DOMAIN pending : pending[w] = t}
                 /\ ~InPending(t) =>
                        /\ terminated' = terminated
                        /\ pending' = pending /\ queue' = queue
                        /\ tasks' = tasks /\ workers' = workers
                        /\ \A u \in TaskIds \ {t} :
                              handle'[u] = handle[u] /\ task'[u] = task[u]]_vars

\* the signal of a task settled by the reply of its worker was aborted
\* afterwards, while that worker executes another task
C39_SignalAfterReplyWorkerBusy ==
    \E t \in TaskIds :
        /\ handle[t].by = "reply"
        /\ task[t].signal = "aborted" /\ task[t].aborted
        /\ task[t].sentTo \in DOMAIN pending
        /\ pending[task[t].sentTo] # t
        /\ task[t].sentTo \notin terminated

\* the tasks whose handle the step settles by a frame of their worker
SettledByReplyNow ==
    {t \in TaskIds : handle[t].st = "pending" /\ handle'[t].st # "pending"
                       /\ handle'[t].by = "reply"}

\* C40: completed never decreases, every step adds to it the number of tasks
\* the step settles by a frame of their worker and nothing for a task settled
\* in another way, and completed is the number of tasks settled by a frame of
\* their worker, at most the number of tasks admitted.
C40_CompletedCountsReplies ==
    /\ [][/\ completed' >= completed
          /\ completed' = completed + Cardinality(SettledByReplyNow)]_vars
    /\ [](/\ completed = Cardinality({t \in TaskIds : handle[t].by = "reply"})
          /\ completed <= nextTask - 1)

\* a task was settled by the reply of its worker and another one in another
\* way
C40_ReplyAndOtherSettle ==
    /\ completed = 1
    /\ \E t \in TaskIds : handle[t].by = "reply"
    /\ \E u \in TaskIds : handle[u].by \in {"timeout", "abort", "error"}

====
